---- MODULE Spec2Model ----
(***************************************************************************)
(* Model of src/sys/windows/ll.rs: a doubly linked list with O(1) removal  *)
(* through handles (Entry).  The heap is modelled explicitly: nodes live   *)
(* at node addresses, list values live at list addresses, owning links     *)
(* (Option<Box<Node>>) and raw links (Rawlink) are both addresses, with    *)
(* NULL for None / the null pointer.                                       *)
(***************************************************************************)
EXTENDS Integers, Sequences, FiniteSets, TLC

\* ---------------------------------------------------------------- bounds
MaxNodes    == 3    \* node addresses the allocator can hand out
MaxListAddr == 2    \* addresses a LinkedList value can live at
MaxLists    == 2    \* list instances created by new() in one run
MaxVal      == 2    \* element values are 1..MaxVal
MaxLifeEntries == 1 \* Entry values held at a time where lists are dropped or moved
MaxObsLists == 1    \* lists in the runs with iterators or threads
MaxNones    == 2    \* calls of Iter::next after the first None
MaxThreads  == 2    \* threads sharing a list behind a lock

NULL == 0           \* ptr::null_mut() / None

NodeAddr == 1..MaxNodes
ListAddr == 1..MaxListAddr
Values   == 1..MaxVal
ObsList  == 1..MaxObsLists
Threads  == 1..MaxThreads

VARIABLES
    mem,      \* [NodeAddr -> Node]: contents of every node cell
    alloc,    \* set of node addresses currently allocated (a live Box)
    ll,       \* [ListAddr -> LinkedList value stored at that address]
    entries,  \* outstanding Entry values held by callers
    ub,       \* TRUE once undefined behaviour has been executed
    nextId,   \* identity given to the next list instance (ghost)
    last,     \* the operation that produced the current state (ghost)
    ghost,    \* per list address: history of the list stored there (ghost)
    it,       \* the Iter value a caller holds, if any
    sync      \* the callers' lock around the lists, and who did what (ghost)

vars == <<mem, alloc, ll, entries, ub, nextId, last, ghost, it, sync>>

\* ------------------------------------------------------------ data types
\* Node::new: value v, next None, prev null.
Node_new(v) == [value |-> v, next |-> NULL, prev |-> NULL]

\* A cell that holds no node (never allocated, or freed).
Blank == [value |-> 0, next |-> NULL, prev |-> NULL]

\* LinkedList::new: head None, tail null.  live/id are ghost: whether a
\* list value is stored at the address, and which instance it is.
LinkedList_new(id) == [live |-> TRUE, id |-> id, head |-> NULL, tail |-> NULL]

NoList == [live |-> FALSE, id |-> 0, head |-> NULL, tail |-> NULL]

\* Entry::new: the address of the list and the address of the node.
\* origin (the instance that pushed) and val (the value last stored in the
\* node through this handle) are ghost fields.
Entry_new_tail(a, n, v) ==
    [ll |-> a, node |-> IF ll[a].tail # NULL THEN ll[a].tail ELSE n,
     origin |-> ll[a].id, val |-> v]

Entry_new(a, n, v) == [ll |-> a, node |-> n, origin |-> ll[a].id, val |-> v]

NoEntry == [ll |-> 0, node |-> NULL, origin |-> 0, val |-> 0]

\* Results of a call: a returned value, or the panic that ended it.
Res(k, v) == [kind |-> k, v |-> v]

\* Outcome of running an operation body on list self.
Out(m, al, h, t, r) ==
    [mem |-> m, alloc |-> al, head |-> h, tail |-> t, res |-> r, ub |-> FALSE]

\* The body dereferenced a pointer to freed memory.
UB == [mem |-> mem, alloc |-> alloc, head |-> NULL, tail |-> NULL,
       res |-> Res("ub", 0), ub |-> TRUE]

\* What a call that executed undefined behaviour may report.
UBResults == {Res("crash", 0)} \cup {Res("value", v) : v \in Values}

\* ------------------------------------------------------------- traversal
\* Iter::next that stops one node early.
Iter_next_last(m, curr) ==
    IF curr = NULL \/ m[curr].next = NULL
    THEN [some |-> FALSE, item |-> 0, curr |-> NULL]
    ELSE [some |-> TRUE, item |-> m[curr].value, curr |-> m[curr].next]

\* Iter::next: None at the end, else the value and the following link.
Iter_next(m, curr) ==
    IF curr = NULL THEN [some |-> FALSE, item |-> 0, curr |-> NULL]
    ELSE [some |-> TRUE, item |-> m[curr].value, curr |-> m[curr].next]

\* iter() collected: calls Iter::next until None (at most k times).
RECURSIVE Collect(_, _, _)
Collect(m, curr, k) ==
    LET r == Iter_next(m, curr)
    IN  IF k = 0 \/ ~r.some THEN <<>>
        ELSE <<r.item>> \o Collect(m, r.curr, k - 1)

iter_in(m, l, a) == Collect(m, l[a].head, MaxNodes + 1)

iter(a) == iter_in(mem, ll, a)

\* is_empty() with the test inverted.
is_empty_neg(a) == ll[a].head # NULL

\* is_empty(): head is None.
is_empty(a) == ll[a].head = NULL

\* ----------------------------------------------------------- destruction
\* Drop of a Link: frees the node and, recursively, its forward chain.
RECURSIVE DropLink(_, _, _)
DropLink(m, al, n) ==
    IF n = NULL THEN [mem |-> m, alloc |-> al, ub |-> FALSE]
    ELSE IF n \notin al THEN [mem |-> m, alloc |-> al, ub |-> TRUE]
    ELSE DropLink([m EXCEPT ![n] = Blank], al \ {n}, m[n].next)

\* ------------------------------------------------------------ allocation
\* Every address some pointer of the program still holds.
Pointers ==
    {e.node : e \in entries}
    \cup {ll[a].head : a \in ListAddr} \cup {ll[a].tail : a \in ListAddr}
    \cup {mem[n].next : n \in NodeAddr} \cup {mem[n].prev : n \in NodeAddr}

\* Box::new: the allocator may return any free address.  Free addresses
\* that no pointer refers to are indistinguishable, so the lowest of them
\* stands for all; a free address that a dangling pointer refers to is
\* kept as a separate choice.
Box_new ==
    LET free  == NodeAddr \ alloc
        stale == free \cap Pointers
        fresh == free \ stale
    IN  stale \cup {n \in fresh : \A k \in fresh : n <= k}

\* ------------------------------------------------------------------ push
\* Node::set_next: next.prev = self; self.next = Some(next).  A node that
\* self.next still owned is dropped by the assignment.
set_next_noprev(m, self, next) ==
    [m EXCEPT ![self].next = next]

\* A set_next that points the prev link of the new node at the node itself.
set_next_selfprev(m, self, next) ==
    [m EXCEPT ![next].prev = next, ![self].next = next]

set_next(m, self, next) ==
    [m EXCEPT ![next].prev = self, ![self].next = next]

\* A push_front that leaves the tail alone also on an empty list.
push_front_notail(m, self, new_head) ==
    IF self.head = NULL
    THEN [mem  |-> [m EXCEPT ![new_head].prev = NULL],
          head |-> new_head, tail |-> self.tail]
    ELSE [mem  |-> [m EXCEPT ![new_head].prev = NULL,
                             ![self.head].prev = new_head,
                             ![new_head].next = self.head],
          head |-> new_head, tail |-> self.tail]

\* push_front on list self = [head, tail]: returns mem, head, tail.
push_front(m, self, new_head) ==
    IF self.head = NULL
    THEN [mem  |-> [m EXCEPT ![new_head].prev = NULL],
          head |-> new_head, tail |-> new_head]
    ELSE [mem  |-> [m EXCEPT ![new_head].prev = NULL,
                             ![self.head].prev = new_head,
                             ![new_head].next = self.head],
          head |-> new_head, tail |-> self.tail]

\* A push that always goes through push_front.
push_prepend(a, el, n, debug) ==
    LET self == ll[a]
        m0   == [mem EXCEPT ![n] = Node_new(el)]
        f    == push_front(m0, self, n)
    IN  Out(f.mem, alloc \cup {n}, f.head,
            IF self.tail = NULL THEN f.tail ELSE self.tail, Res("entry", 0))

\* A push that appends but does not repoint the tail to the new node.
push_stale_tail(a, el, n, debug) ==
    LET self == ll[a]
        m0   == [mem EXCEPT ![n] = Node_new(el)]
        al0  == alloc \cup {n}
        tail == self.tail
    IN  IF tail = NULL
        THEN LET f == push_front(m0, self, n)
             IN  Out(f.mem, al0, f.head, f.tail, Res("entry", 0))
        ELSE IF tail \notin alloc THEN UB
        ELSE IF debug /\ m0[tail].next # NULL
             THEN Out(mem, alloc, self.head, self.tail, Res("debug_assert", 0))
        ELSE LET d == DropLink(m0, al0, m0[tail].next)
             IN  IF d.ub THEN UB
                 ELSE Out(set_next(d.mem, tail, n), d.alloc,
                          self.head, self.tail, Res("entry", 0))

\* push(el) on the list at address a; n is the address Box::new returns,
\* debug whether the build has debug assertions enabled.
push(a, el, n, debug) ==
    LET self == ll[a]
        m0   == [mem EXCEPT ![n] = Node_new(el)]
        al0  == alloc \cup {n}
        tail == self.tail
    IN  IF tail = NULL
        THEN LET f == push_front(m0, self, n)
             IN  Out(f.mem, al0, f.head, f.tail, Res("entry", 0))
        ELSE IF tail \notin alloc THEN UB
        ELSE IF debug /\ m0[tail].next # NULL
             THEN \* debug_assert in set_next fails; the new Box is dropped
                  Out(mem, alloc, self.head, self.tail, Res("debug_assert", 0))
        ELSE LET d == DropLink(m0, al0, m0[tail].next)
             IN  IF d.ub THEN UB
                 ELSE Out(set_next(d.mem, tail, n), d.alloc,
                          self.head, n, Res("entry", 0))

\* -------------------------------------------------------------- identity
\* ensure_same_ll: the entry's list pointer equals the address of self.
ensure_same_ll_off(a, entry) == TRUE

ensure_same_ll(a, entry) == entry.ll = a

\* ---------------------------------------------------------------- remove
\* node.next.take()
take_next_keep(m, node) == m

take_next(m, node) == [m EXCEPT ![node].next = NULL]

\* The match of remove: relinks around the node and yields the Link that
\* owned it (old), which the code unwraps.
unlink_keep_tail(m, self, prev, next) ==
    IF prev # NULL /\ next # NULL
    THEN [mem  |-> [m EXCEPT ![next].prev = prev, ![prev].next = next],
          head |-> self.head, tail |-> self.tail, old |-> m[prev].next]
    ELSE IF prev = NULL /\ next # NULL
    THEN [mem  |-> [m EXCEPT ![next].prev = NULL],
          head |-> next, tail |-> self.tail, old |-> self.head]
    ELSE IF prev # NULL /\ next = NULL
    THEN [mem  |-> [m EXCEPT ![prev].next = NULL],
          head |-> self.head, tail |-> self.tail, old |-> m[prev].next]
    ELSE [mem  |-> m, head |-> NULL, tail |-> NULL, old |-> self.head]

unlink_cut(m, self, prev, next) ==
    IF prev # NULL /\ next # NULL
    THEN [mem  |-> [m EXCEPT ![next].prev = prev, ![prev].next = NULL],
          head |-> self.head, tail |-> self.tail, old |-> m[prev].next]
    ELSE IF prev = NULL /\ next # NULL
    THEN [mem  |-> [m EXCEPT ![next].prev = NULL],
          head |-> next, tail |-> self.tail, old |-> self.head]
    ELSE IF prev # NULL /\ next = NULL
    THEN [mem  |-> [m EXCEPT ![prev].next = NULL],
          head |-> self.head, tail |-> prev, old |-> m[prev].next]
    ELSE [mem  |-> m, head |-> NULL, tail |-> NULL, old |-> self.head]

unlink_sole_tail(m, self, prev, next) ==
    IF prev # NULL /\ next # NULL
    THEN [mem  |-> [m EXCEPT ![next].prev = prev, ![prev].next = next],
          head |-> self.head, tail |-> self.tail, old |-> m[prev].next]
    ELSE IF prev = NULL /\ next # NULL
    THEN [mem  |-> [m EXCEPT ![next].prev = NULL],
          head |-> next, tail |-> self.tail, old |-> self.head]
    ELSE IF prev # NULL /\ next = NULL
    THEN [mem  |-> [m EXCEPT ![prev].next = NULL],
          head |-> self.head, tail |-> prev, old |-> m[prev].next]
    ELSE [mem  |-> m, head |-> NULL, tail |-> self.tail, old |-> self.head]

unlink_head_prev(m, self, prev, next) ==
    IF prev # NULL /\ next # NULL
    THEN [mem  |-> [m EXCEPT ![next].prev = prev, ![prev].next = next],
          head |-> self.head, tail |-> self.tail, old |-> m[prev].next]
    ELSE IF prev = NULL /\ next # NULL
    THEN [mem  |-> m,
          head |-> next, tail |-> self.tail, old |-> self.head]
    ELSE IF prev # NULL /\ next = NULL
    THEN [mem  |-> [m EXCEPT ![prev].next = NULL],
          head |-> self.head, tail |-> prev, old |-> m[prev].next]
    ELSE [mem  |-> m, head |-> NULL, tail |-> NULL, old |-> self.head]

unlink(m, self, prev, next) ==
    IF prev # NULL /\ next # NULL
    THEN [mem  |-> [m EXCEPT ![next].prev = prev, ![prev].next = next],
          head |-> self.head, tail |-> self.tail, old |-> m[prev].next]
    ELSE IF prev = NULL /\ next # NULL
    THEN [mem  |-> [m EXCEPT ![next].prev = NULL],
          head |-> next, tail |-> self.tail, old |-> self.head]
    ELSE IF prev # NULL /\ next = NULL
    THEN [mem  |-> [m EXCEPT ![prev].next = NULL],
          head |-> self.head, tail |-> prev, old |-> m[prev].next]
    ELSE [mem  |-> m, head |-> NULL, tail |-> NULL, old |-> self.head]

\* remove(entry) on the list at address a, in a build with or without
\* debug assertions.
remove(a, entry, debug) ==
    LET self == ll[a]
    IN  IF ~ensure_same_ll(a, entry)
        THEN Out(mem, alloc, self.head, self.tail, Res("foreign", 0))
        ELSE IF entry.node = NULL
        THEN Out(mem, alloc, self.head, self.tail, Res("invalid", 0))
        ELSE IF entry.node \notin alloc THEN UB
        ELSE
          LET node == entry.node
              prev == mem[node].prev
              next == mem[node].next
              m1   == take_next(mem, node)
          IN  IF (prev # NULL /\ prev \notin alloc)
                 \/ (next # NULL /\ next \notin alloc) THEN UB
              ELSE
                LET u == unlink(m1, self, prev, next)
                IN  IF u.old = NULL
                    THEN Out(u.mem, alloc, u.head, u.tail, Res("unwrap", 0))
                    ELSE IF u.old \notin alloc THEN UB
                    ELSE
                      LET removed == u.mem[u.old]
                          d == DropLink([u.mem EXCEPT ![u.old] = Blank],
                                        alloc \ {u.old}, removed.next)
                      IN  IF d.ub THEN UB
                          ELSE IF debug /\ removed.next # NULL
                          THEN Out(d.mem, d.alloc, u.head, u.tail,
                                   Res("debug_assert", 0))
                          ELSE Out(d.mem, d.alloc, u.head, u.tail,
                                   Res("value", removed.value))

\* remove takes the Entry by value: the caller no longer holds it.
consume_not(es, entry) == es

consume(es, entry) == es \ {entry}

\* --------------------------------------------------------------- get_mut
\* A get_mut whose reference points into the tail node.
get_mut_tail(a, entry, w) ==
    LET self == ll[a]
        to   == IF self.tail = NULL THEN entry.node ELSE self.tail
    IN  IF ~ensure_same_ll(a, entry)
        THEN Out(mem, alloc, self.head, self.tail, Res("foreign", 0))
        ELSE IF entry.node = NULL
        THEN Out(mem, alloc, self.head, self.tail, Res("invalid", 0))
        ELSE IF entry.node \notin alloc \/ to \notin alloc THEN UB
        ELSE Out([mem EXCEPT ![to].value = w], alloc,
                 self.head, self.tail, Res("value", mem[entry.node].value))

\* get_mut(entry) on the list at address a; w is what the caller stores
\* through the returned reference.
get_mut(a, entry, w) ==
    LET self == ll[a]
    IN  IF ~ensure_same_ll(a, entry)
        THEN Out(mem, alloc, self.head, self.tail, Res("foreign", 0))
        ELSE IF entry.node = NULL
        THEN Out(mem, alloc, self.head, self.tail, Res("invalid", 0))
        ELSE IF entry.node \notin alloc THEN UB
        ELSE Out([mem EXCEPT ![entry.node].value = w], alloc,
                 self.head, self.tail, Res("value", mem[entry.node].value))

\* ------------------------------------------------------- ghost histories
\* members: nodes pushed onto the list and not yet removed from it;
\* clean/pushed: the values pushed so far, while the list has seen pushes
\* only (no removal, no value overwritten through get_mut).
G0 == [members |-> {}, clean |-> TRUE, pushed |-> <<>>]

RECURSIVE Walk(_, _, _)
Walk(m, n, k) ==
    IF n = NULL \/ k = 0 THEN <<>> ELSE <<n>> \o Walk(m, m[n].next, k - 1)

\* The forward chain of the list at a, as node addresses.
Chain(a) == Walk(mem, ll[a].head, MaxNodes + 1)

Pos(s, x) == IF \E i \in 1..Len(s) : s[i] = x
             THEN CHOOSE i \in 1..Len(s) : s[i] = x ELSE 0

DeleteAt(s, i) == [j \in 1..(Len(s) - 1) |-> IF j < i THEN s[j] ELSE s[j + 1]]

Range(s) == {s[i] : i \in 1..Len(s)}

\* The record of a call: the operation, the address and identity of the
\* list it was called on, the entry passed or returned, the position of
\* the entry's node in that list's chain before the call, the result.
Op(op, a, h, r) ==
    [op |-> op, at |-> a, id |-> ll[a].id, h |-> h,
     pos |-> IF op = "remove" THEN Pos(Chain(a), h.node) ELSE 0, res |-> r]

\* No Iter value is held.  on: an Iter exists; at: the list it borrows;
\* curr: its field; out: the items it has yielded; nones: how often it
\* has returned None (ghost).
NoIter == [on |-> FALSE, at |-> 0, curr |-> NULL, out |-> <<>>, nones |-> 0]

\* No thread holds the lock.  maker: the thread that pushed each node;
\* by: the thread of the latest call; from: the thread that had pushed the
\* node of the entry used in that call.
Sync0 == [lock |-> 0, maker |-> [n \in NodeAddr |-> 0], by |-> 0, from |-> 0]

\* ---------------------------------------------------------------- states
Init ==
    /\ mem = [n \in NodeAddr |-> Blank]
    /\ alloc = {}
    /\ ll = [a \in ListAddr |-> NoList]
    /\ entries = {}
    /\ ub = FALSE
    /\ nextId = 1
    /\ last = [op |-> "init", at |-> 0, id |-> 0, h |-> NoEntry, pos |-> 0,
               res |-> Res("ok", 0)]
    /\ ghost = [a \in ListAddr |-> G0]
    /\ it = NoIter
    /\ sync = Sync0

\* A call ran into undefined behaviour: any result, and the run ends here.
UBStep(op, a, h) ==
    /\ ub' = TRUE
    /\ \E r \in UBResults : last' = Op(op, a, h, r)
    /\ UNCHANGED <<mem, alloc, ll, nextId, ghost>>

\* let l = LinkedList::new(), stored at the free address a.
New(a) ==
    /\ ~ub /\ ~ll[a].live /\ nextId <= MaxLists
    /\ ll' = [ll EXCEPT ![a] = LinkedList_new(nextId)]
    /\ nextId' = nextId + 1
    /\ ghost' = [ghost EXCEPT ![a] = G0]
    /\ last' = [op |-> "new", at |-> a, id |-> nextId, h |-> NoEntry,
                pos |-> 0, res |-> Res("ok", 0)]
    /\ UNCHANGED <<mem, alloc, entries, ub>>

\* l.push(el)
Push(a, el, n, debug) ==
    /\ ~ub /\ ll[a].live /\ n \in Box_new
    /\ LET o == push(a, el, n, debug)
           e == Entry_new(a, n, el)
       IN  IF o.ub THEN UBStep("push", a, e) /\ UNCHANGED entries
           ELSE /\ mem' = o.mem
                /\ alloc' = o.alloc
                /\ ll' = [ll EXCEPT ![a].head = o.head, ![a].tail = o.tail]
                /\ last' = Op("push", a, e, o.res)
                /\ IF o.res.kind = "entry"
                   THEN /\ entries' = entries \cup {e}
                        /\ ghost' = [ghost EXCEPT
                              ![a].members = @ \cup {n},
                              ![a].pushed = IF ghost[a].clean
                                            THEN Append(@, el) ELSE @]
                   ELSE UNCHANGED <<entries, ghost>>
                /\ UNCHANGED <<ub, nextId>>

\* l.remove(entry)
Remove(a, entry, debug) ==
    /\ ~ub /\ ll[a].live /\ entry \in entries
    /\ entries' = consume(entries, entry)
    /\ LET o == remove(a, entry, debug)
       IN  IF o.ub THEN UBStep("remove", a, entry)
           ELSE /\ mem' = o.mem
                /\ alloc' = o.alloc
                /\ ll' = [ll EXCEPT ![a].head = o.head, ![a].tail = o.tail]
                /\ last' = Op("remove", a, entry, o.res)
                /\ IF o.res.kind = "foreign"
                   THEN UNCHANGED ghost
                   ELSE ghost' = [ghost EXCEPT
                           ![a].members = @ \ {entry.node},
                           ![a].clean = FALSE,
                           ![a].pushed = <<>>]
                /\ UNCHANGED <<ub, nextId>>

\* *l.get_mut(&entry) = w
GetMut(a, entry, w) ==
    /\ ~ub /\ ll[a].live /\ entry \in entries
    /\ LET o == get_mut(a, entry, w)
       IN  IF o.ub THEN UBStep("get_mut", a, entry) /\ UNCHANGED entries
           ELSE /\ mem' = o.mem
                /\ alloc' = o.alloc
                /\ ll' = [ll EXCEPT ![a].head = o.head, ![a].tail = o.tail]
                /\ last' = Op("get_mut", a, entry, o.res)
                /\ entries' = IF o.res.kind = "value"
                              THEN (entries \ {entry})
                                   \cup {[entry EXCEPT !.val = w]}
                              ELSE entries
                /\ ghost' = IF o.res.kind = "value" /\ o.res.v # w
                            THEN [ghost EXCEPT ![a].clean = FALSE,
                                               ![a].pushed = <<>>]
                            ELSE ghost
                /\ UNCHANGED <<ub, nextId>>

\* drop(l): the list value at a goes out of scope; its chain is freed.
\* Entries are plain values without a lifetime and stay with the caller.
DropList(a) ==
    /\ ~ub /\ ll[a].live
    /\ LET d == DropLink(mem, alloc, ll[a].head)
       IN  IF d.ub THEN UBStep("drop", a, NoEntry) /\ UNCHANGED entries
           ELSE /\ mem' = d.mem
                /\ alloc' = d.alloc
                /\ ll' = [ll EXCEPT ![a] = NoList]
                /\ ghost' = [ghost EXCEPT ![a] = G0]
                /\ last' = Op("drop", a, NoEntry, Res("ok", 0))
                /\ UNCHANGED <<entries, ub, nextId>>

\* let l2 = l: the list value moves from address a to the free address b.
MoveList(a, b) ==
    /\ ~ub /\ ll[a].live /\ ~ll[b].live
    /\ ll' = [ll EXCEPT ![b] = ll[a], ![a] = NoList]
    /\ ghost' = [ghost EXCEPT ![b] = ghost[a], ![a] = G0]
    /\ last' = Op("move", a, NoEntry, Res("ok", 0))
    /\ UNCHANGED <<mem, alloc, entries, ub, nextId>>

\* l.is_empty()
IsEmpty(a) ==
    /\ ~ub /\ ll[a].live
    /\ last' = Op("is_empty", a, NoEntry,
                  Res("bool", IF is_empty(a) THEN 1 ELSE 0))
    /\ UNCHANGED <<mem, alloc, ll, entries, ub, nextId, ghost>>

\* let i = l.iter(): curr borrows the head link.
IterStart(a) ==
    /\ ~ub /\ ll[a].live /\ ~it.on
    /\ it' = [on |-> TRUE, at |-> a, curr |-> ll[a].head, out |-> <<>>,
              nones |-> 0]
    /\ UNCHANGED <<mem, alloc, ll, entries, ub, nextId, last, ghost>>

\* i.next()
IterNext ==
    /\ ~ub /\ it.on /\ it.nones < MaxNones /\ Len(it.out) <= MaxNodes
    /\ LET r == Iter_next(mem, it.curr)
       IN  it' = IF r.some
                 THEN [it EXCEPT !.curr = r.curr, !.out = Append(@, r.item)]
                 ELSE [it EXCEPT !.curr = r.curr, !.nones = @ + 1]
    /\ UNCHANGED <<mem, alloc, ll, entries, ub, nextId, last, ghost>>

\* drop(i): the borrow of the list ends.
IterEnd ==
    /\ it.on
    /\ it' = NoIter
    /\ UNCHANGED <<mem, alloc, ll, entries, ub, nextId, last, ghost>>

\* The list at a is borrowed by an Iter: no &mut self method can be called.
Borrowed(a) == it.on /\ it.at = a

\* Thread t takes / gives back the lock the callers keep around the lists.
Acquire(t) ==
    /\ sync.lock = 0
    /\ sync' = [sync EXCEPT !.lock = t]
    /\ UNCHANGED <<mem, alloc, ll, entries, ub, nextId, last, ghost, it>>

Release(t) ==
    /\ sync.lock = t
    /\ sync' = [sync EXCEPT !.lock = 0]
    /\ UNCHANGED <<mem, alloc, ll, entries, ub, nextId, last, ghost, it>>

\* Thread t makes the call recorded in last'.
ByThread(t) ==
    /\ sync' = [sync EXCEPT
          !.by = t,
          !.from = IF last'.op = "push" THEN t
                   ELSE IF last'.h.node = NULL THEN 0
                   ELSE sync.maker[last'.h.node],
          !.maker = IF last'.op = "push" /\ last'.res.kind = "entry"
                    THEN [@ EXCEPT ![last'.h.node] = t]
                    ELSE IF last'.op = "remove" /\ last'.res.kind = "value"
                    THEN [@ EXCEPT ![last'.h.node] = 0]
                    ELSE @]

\* Lists that stay where they were created for the whole run.
Next ==
    \/ \E a \in ListAddr : New(a) /\ UNCHANGED <<it, sync>>
    \/ \E a \in ListAddr, el \in Values, n \in NodeAddr, debug \in BOOLEAN :
          Push(a, el, n, debug) /\ UNCHANGED <<it, sync>>
    \/ \E a \in ListAddr, e \in entries, debug \in BOOLEAN :
          Remove(a, e, debug) /\ UNCHANGED <<it, sync>>
    \/ \E a \in ListAddr, e \in entries, w \in Values :
          GetMut(a, e, w) /\ UNCHANGED <<it, sync>>

Spec == Init /\ [][Next]_vars

\* Lists that may also be dropped and moved.
NextLife ==
    \/ \E a \in ListAddr : New(a) /\ UNCHANGED <<it, sync>>
    \/ \E a \in ListAddr, el \in Values, n \in NodeAddr, debug \in BOOLEAN :
          /\ Cardinality(entries) < MaxLifeEntries
          /\ Push(a, el, n, debug) /\ UNCHANGED <<it, sync>>
    \/ \E a \in ListAddr, e \in entries, debug \in BOOLEAN :
          Remove(a, e, debug) /\ UNCHANGED <<it, sync>>
    \/ \E a \in ListAddr, e \in entries, w \in Values :
          GetMut(a, e, w) /\ UNCHANGED <<it, sync>>
    \/ \E a \in ListAddr : DropList(a) /\ UNCHANGED <<it, sync>>
    \/ \E a, b \in ListAddr : MoveList(a, b) /\ UNCHANGED <<it, sync>>

SpecLife == Init /\ [][NextLife]_vars

\* Lists that are also observed: is_empty() at any time, and an iterator
\* whose shared borrow keeps the &mut self methods away while it lives.
NextObs ==
    \/ \E a \in ObsList : New(a) /\ UNCHANGED <<it, sync>>
    \/ \E a \in ObsList, el \in Values, n \in NodeAddr, debug \in BOOLEAN :
          ~Borrowed(a) /\ Push(a, el, n, debug) /\ UNCHANGED <<it, sync>>
    \/ \E a \in ObsList, e \in entries, debug \in BOOLEAN :
          ~Borrowed(a) /\ Remove(a, e, debug) /\ UNCHANGED <<it, sync>>
    \/ \E a \in ObsList, e \in entries, w \in Values :
          ~Borrowed(a) /\ GetMut(a, e, w) /\ UNCHANGED <<it, sync>>
    \/ \E a \in ObsList : IsEmpty(a) /\ UNCHANGED <<it, sync>>
    \/ \E a \in ObsList : IterStart(a) /\ UNCHANGED sync
    \/ IterNext /\ UNCHANGED sync
    \/ IterEnd /\ UNCHANGED sync

SpecObs == Init /\ [][NextObs]_vars

\* Several threads share the lists behind a lock: every call is made by
\* the thread that holds it, and entries pass freely between threads.
NextMT ==
    \/ \E t \in Threads : Acquire(t)
    \/ \E t \in Threads : Release(t)
    \/ \E t \in Threads, a \in ObsList :
          sync.lock = t /\ New(a) /\ ByThread(t) /\ UNCHANGED it
    \/ \E t \in Threads, a \in ObsList, el \in Values, n \in NodeAddr,
          debug \in BOOLEAN :
          sync.lock = t /\ Push(a, el, n, debug) /\ ByThread(t) /\ UNCHANGED it
    \/ \E t \in Threads, a \in ObsList, e \in entries, debug \in BOOLEAN :
          sync.lock = t /\ Remove(a, e, debug) /\ ByThread(t) /\ UNCHANGED it
    \/ \E t \in Threads, a \in ObsList, e \in entries, w \in Values :
          sync.lock = t /\ GetMut(a, e, w) /\ ByThread(t) /\ UNCHANGED it

SpecMT == Init /\ [][NextMT]_vars

\* ---------------------------------------------------------------- claims
\* The entry h was pushed by the list instance with identity id.
Own(h, id) == h.origin = id

\* The call recorded in last went through (returned, no panic).
Returned == last.res.kind = "value"

\* C1: in every state reached by pushes and removes from new(), the forward
\* chain from the head visits every live node of the list exactly once and
\* ends at the node the tail points to; the tail is null iff the list has
\* no nodes.
C1_ForwardChain ==
    \A a \in ListAddr : ll[a].live =>
        LET c == Chain(a)
        IN  /\ Len(c) = Cardinality(Range(c))
            /\ Range(c) = ghost[a].members
            /\ ll[a].tail = (IF c = <<>> THEN NULL ELSE c[Len(c)])
            /\ (ll[a].tail = NULL <=> ghost[a].members = {})

\* C1 witness: a tail with a predecessor was just removed.
C1_Witness ==
    /\ last.op = "remove" /\ Returned
    /\ last.pos = Len(Chain(last.at)) + 1 /\ last.pos >= 2

\* C2: every node of the chain but the first has a prev link to its
\* immediate predecessor, and the first node's prev link is null.
C2_BackwardLinks ==
    \A a \in ListAddr : ll[a].live =>
        LET c == Chain(a)
        IN  \A i \in 1..Len(c) :
                mem[c[i]].prev = (IF i = 1 THEN NULL ELSE c[i - 1])

\* C2 witness: a head with a successor was just removed.
C2_Witness ==
    /\ last.op = "remove" /\ Returned
    /\ last.pos = 1 /\ Len(Chain(last.at)) >= 2

\* C3: remove with a handle of the list returns the value held by the
\* handle's node, and iter() afterwards yields the sequence it yielded
\* before with exactly that element deleted.
C3_RemoveReturnsOwn ==
    [][(last'.op = "remove" /\ Own(last'.h, last'.id)) =>
        LET a == last'.at
            h == last'.h
            p == Pos(Chain(a), h.node)
        IN  /\ p # 0
            /\ last'.res = Res("value", mem[h.node].value)
            /\ iter_in(mem', ll', a) = DeleteAt(iter(a), p)
            /\ Len(iter_in(mem', ll', a)) = Len(iter(a)) - 1]_vars

\* C3 witness: an interior node was just removed.
C3_Witness ==
    /\ last.op = "remove" /\ Returned
    /\ 1 < last.pos /\ last.pos <= Len(Chain(last.at))

\* C4: while a list has seen pushes only, iter() yields exactly the values
\* pushed onto it, each once, in push order.
C4_PushOrder ==
    \A a \in ListAddr :
        (ll[a].live /\ ghost[a].clean) => iter(a) = ghost[a].pushed

\* C4 witness: three pushes, not all of the same value.
C4_Witness ==
    \E a \in ListAddr :
        /\ ll[a].live /\ ghost[a].clean /\ last.op = "push"
        /\ Len(ghost[a].pushed) >= 3
        /\ ghost[a].pushed[1] # ghost[a].pushed[2]

\* C5: get_mut with a handle of the list reads the value last stored in the
\* handle's own node (the pushed value, or the last one written through
\* get_mut with this handle), and every outstanding handle's node holds it.
C5_GetMutOwnNode ==
    /\ (last.op = "get_mut" /\ Own(last.h, last.id)) =>
            last.res = Res("value", last.h.val)
    /\ \A e \in entries, a \in ListAddr :
            (ll[a].live /\ Own(e, ll[a].id)) =>
                (e.node \in alloc /\ mem[e.node].value = e.val)

\* C5 witness: get_mut read a value through a handle that is not the
\* latest pushed, from a list that holds another node with another value.
C5_Witness ==
    /\ last.op = "get_mut" /\ Returned
    /\ ll[last.at].tail # last.h.node
    /\ \E n \in ghost[last.at].members \ {last.h.node} :
            mem[n].value # last.res.v

\* C6: get_mut or remove called with a handle of another list panics with
\* the foreign-entry assertion and changes no node and no list.
C6_ForeignRejected ==
    [][(last'.op \in {"get_mut", "remove"} /\ ~Own(last'.h, last'.id)) =>
        (last'.res = Res("foreign", 0) /\ UNCHANGED <<mem, alloc, ll>>)]_vars

\* C6 witness: a foreign handle was just rejected by remove while both
\* lists hold nodes.
C6_Witness ==
    /\ last.op = "remove" /\ last.res.kind = "foreign"
    /\ \A a \in ListAddr : ll[a].live /\ ll[a].head # NULL

\* C7: every outstanding handle of a live list points to a node reachable
\* from that list's head, and no two handles point to the same node.
C7_HandlesReachable ==
    /\ \A e \in entries, a \in ListAddr :
            (ll[a].live /\ Own(e, ll[a].id)) => e.node \in Range(Chain(a))
    /\ \A e1, e2 \in entries : e1.node = e2.node => e1 = e2

\* C7 witness: after a remove, two handles of the same list are still
\* outstanding.
C7_Witness ==
    /\ last.op = "remove" /\ Returned
    /\ \E e1, e2 \in entries :
            e1 # e2 /\ Own(e1, last.id) /\ Own(e2, last.id)

\* C8: once every pushed element has been removed, is_empty() is true and
\* head and tail are both empty.
C8_AllRemovedEmpty ==
    \A a \in ListAddr :
        (ll[a].live /\ ghost[a].members = {}) =>
            (is_empty(a) /\ ll[a].head = NULL /\ ll[a].tail = NULL)

\* C8 witness: the last element of a list was just removed.
C8_Witness ==
    /\ last.op = "remove" /\ Returned
    /\ ghost[last.at].members = {} /\ ~ghost[last.at].clean

\* The nodes reachable from the head of some live list.
Reachable == UNION {Range(Chain(a)) : a \in {b \in ListAddr : ll[b].live}}

\* C9: the allocated nodes are exactly the nodes reachable from a head, and
\* a remove that returns frees exactly the node of its handle.
C9_AllocIsReachable ==
    /\ [](alloc = Reachable)
    /\ [][(last'.op = "remove" /\ last'.res.kind = "value") =>
            alloc' = alloc \ {last'.h.node}]_vars

\* C9 witness: a node with a successor chain was just removed.
C9_Witness ==
    /\ last.op = "remove" /\ Returned
    /\ last.pos >= 1 /\ last.pos <= Len(Chain(last.at))
    /\ alloc # {}

\* C10: get_mut and remove reject every handle that another list instance
\* produced, also when that instance no longer exists or the list called
\* lives at the address the other instance had.
C10_EveryForeignRejected ==
    (last.op \in {"get_mut", "remove"} /\ ~Own(last.h, last.id)) =>
        last.res.kind = "foreign"

\* C11: while the list instance that produced a handle is alive, get_mut
\* and remove with that handle pass the same-list assertion, also after the
\* list value has been moved to another address.
C11_OwnHandleAccepted ==
    (last.op \in {"get_mut", "remove"} /\ Own(last.h, last.id)) =>
        last.res.kind # "foreign"

\* C14: a push onto an empty list makes the new node head and tail with a
\* null prev; a push onto a non-empty list links the new node after the
\* former tail and repoints the tail, leaving the head; the returned handle
\* is the new node's, and no other node and no other list changes.
C14_PushFrame ==
    [][(last'.op = "push" /\ last'.res.kind = "entry") =>
        LET a == last'.at
            n == last'.h.node
            t == ll[a].tail
        IN  /\ n \notin alloc /\ alloc' = alloc \cup {n}
            /\ last'.h \in entries' /\ last'.h.ll = a
            /\ mem'[n].value = last'.h.val /\ mem'[n].next = NULL
            /\ IF is_empty(a)
               THEN /\ ll'[a].head = n /\ ll'[a].tail = n
                    /\ mem'[n].prev = NULL
                    /\ \A m \in NodeAddr \ {n} : mem'[m] = mem[m]
               ELSE /\ mem'[n].prev = t
                    /\ mem'[t] = [mem[t] EXCEPT !.next = n]
                    /\ ll'[a].tail = n /\ ll'[a].head = ll[a].head
                    /\ \A m \in NodeAddr \ {n, t} : mem'[m] = mem[m]
            /\ \A b \in ListAddr \ {a} : ll'[b] = ll[b]]_vars

\* C14 witness: a push appended to a list of two or more while the other
\* list holds nodes too.
C14_Witness ==
    /\ last.op = "push" /\ last.res.kind = "entry"
    /\ Len(Chain(last.at)) >= 2
    /\ \E b \in ListAddr \ {last.at} : ll[b].head # NULL

\* C15: a remove changes only the links of its case (interior, head with
\* successor, tail with predecessor, sole node); the values and links of
\* all other nodes, and the other lists, stay as they were.
C15_RemoveFrame ==
    [][(last'.op = "remove" /\ Own(last'.h, last'.id)) =>
        LET a  == last'.at
            x  == last'.h.node
            pr == mem[x].prev
            nx == mem[x].next
        IN  /\ last'.res.kind = "value"
            /\ IF pr # NULL /\ nx # NULL
               THEN /\ mem'[pr].next = nx /\ mem'[nx].prev = pr
                    /\ ll'[a].head = ll[a].head /\ ll'[a].tail = ll[a].tail
               ELSE IF pr = NULL /\ nx # NULL
               THEN /\ ll'[a].head = nx /\ mem'[nx].prev = NULL
                    /\ ll'[a].tail = ll[a].tail
               ELSE IF pr # NULL /\ nx = NULL
               THEN /\ mem'[pr].next = NULL /\ ll'[a].tail = pr
                    /\ ll'[a].head = ll[a].head
               ELSE ll'[a].head = NULL /\ ll'[a].tail = NULL
            /\ \A m \in NodeAddr \ {x} :
                   /\ mem'[m].value = mem[m].value
                   /\ (m # pr => mem'[m].next = mem[m].next)
                   /\ (m # nx => mem'[m].prev = mem[m].prev)
            /\ \A b \in ListAddr \ {a} : ll'[b] = ll[b]]_vars

\* C15 witness: the head of a list of three was just removed while the
\* remaining nodes hold different values.
C15_Witness ==
    /\ last.op = "remove" /\ Returned /\ last.pos = 1
    /\ Len(Chain(last.at)) = 2
    /\ mem[Chain(last.at)[1]].value # mem[Chain(last.at)[2]].value

\* C16: get_mut with a handle of the list changes no head, tail or link,
\* no set of nodes and no handle; a write through the reference changes
\* the value of the handle's node only.
C16_GetMutFrame ==
    [][(last'.op = "get_mut" /\ Own(last'.h, last'.id)) =>
        LET x == last'.h.node
        IN  /\ last'.res = Res("value", mem[x].value)
            /\ UNCHANGED <<alloc, ll>>
            /\ \A m \in NodeAddr :
                   /\ mem'[m].next = mem[m].next
                   /\ mem'[m].prev = mem[m].prev
                   /\ (m # x => mem'[m].value = mem[m].value)
            /\ {<<e.ll, e.node, e.origin>> : e \in entries'}
                   = {<<e.ll, e.node, e.origin>> : e \in entries}
            /\ \E e \in entries' :
                   e.node = x /\ mem'[x].value = e.val]_vars

\* C16 witness: a write through get_mut changed the value of an interior
\* node.
C16_Witness ==
    /\ last.op = "get_mut" /\ Returned
    /\ mem[last.h.node].value # last.res.v
    /\ mem[last.h.node].prev # NULL /\ mem[last.h.node].next # NULL

\* C18: with handles used on the list that produced them, no assertion,
\* expect or unwrap inside push or remove fails and no freed node is
\* touched.
C18_NoInternalFailure ==
    /\ ~ub
    /\ last.op = "push" => last.res.kind = "entry"
    /\ (last.op = "remove" /\ Own(last.h, last.id)) =>
            last.res.kind = "value"
    /\ last.res.kind \notin {"debug_assert", "unwrap", "invalid"}

\* C18 witness: a push appended after the tail of the list had been
\* removed.
C18_Witness ==
    /\ last.op = "push" /\ last.res.kind = "entry"
    /\ ~ghost[last.at].clean /\ Len(Chain(last.at)) >= 2

\* C12: with every call made under the callers' lock, in every interleaving
\* of whole calls by several threads each live list keeps its forward
\* chain ending at the tail, its backward links and allocated = reachable,
\* no call runs into undefined behaviour, and a remove with a handle of the
\* list returns the value of the handle's node, whichever thread had
\* pushed it.
C12_SerialisedThreads ==
    /\ [](/\ ~ub
          /\ alloc = Reachable
          /\ \A a \in ListAddr : ll[a].live =>
                LET c == Chain(a)
                IN  /\ Len(c) = Cardinality(Range(c))
                    /\ ll[a].tail = (IF c = <<>> THEN NULL ELSE c[Len(c)])
                    /\ \A i \in 1..Len(c) :
                          mem[c[i]].prev = (IF i = 1 THEN NULL ELSE c[i - 1]))
    /\ [][(last' # last /\ last'.op = "remove" /\ Own(last'.h, last'.id)) =>
            /\ sync.lock = sync'.by
            /\ last'.res = Res("value", mem[last'.h.node].value)]_vars

\* C12 witness: a thread just removed an interior node that the other
\* thread had pushed, and the list still holds a node of its own.
C12_Witness ==
    /\ last.op = "remove" /\ Returned
    /\ sync.by # 0 /\ sync.from # 0 /\ sync.from # sync.by
    /\ 1 < last.pos /\ last.pos <= Len(Chain(last.at))
    /\ \E n \in Range(Chain(last.at)) : sync.maker[n] = sync.by

\* C13: an iterator over a list that is not changed meanwhile yields the
\* values of the n nodes of the list in chain order from the head, then
\* None, and None again on every later call; a call of next changes no
\* head, tail, link or value.
C13_IterYieldsChain ==
    /\ [](it.on =>
            LET c == Chain(it.at)
                n == Len(it.out)
            IN  /\ n <= Len(c)
                /\ \A i \in 1..n : it.out[i] = mem[c[i]].value
                /\ it.nones > 0 =>
                      (n = Len(c) /\ n = Cardinality(ghost[it.at].members)))
    /\ [][(it.on /\ it'.on /\ it' # it) =>
            /\ ll'[it.at] = ll[it.at]
            /\ \A m \in Range(Chain(it.at)) : mem'[m] = mem[m]
            /\ alloc' = alloc
            /\ it.nones > 0 =>
                  (it'.out = it.out /\ it'.nones = it.nones + 1)]_vars

\* C13 witness: an iterator over three nodes with two different values has
\* returned None twice.
C13_Witness ==
    /\ it.on /\ it.nones >= 2
    /\ Len(it.out) >= 3 /\ it.out[1] # it.out[2]

\* C17: new() gives a list with no nodes, head None and tail null;
\* is_empty() returns true exactly when every node pushed onto the list has
\* been removed again (as many removes as pushes), and changes nothing.
C17_IsEmptyCounts ==
    /\ [](/\ last.op = "new" =>
                /\ ll[last.at].head = NULL /\ ll[last.at].tail = NULL
                /\ Chain(last.at) = <<>> /\ ghost[last.at].members = {}
          /\ last.op = "is_empty" =>
                (last.res.v = 1 <=> ghost[last.at].members = {}))
    /\ [][(last'.op = "is_empty" /\ last' # last) =>
            UNCHANGED <<mem, alloc, ll, entries, ghost>>]_vars

\* C17 witness: is_empty() just returned true for a list that had held
\* nodes.
C17_Witness ==
    /\ last.op = "is_empty" /\ last.res.v = 1
    /\ ~ghost[last.at].clean

TypeOK ==
    /\ alloc \subseteq NodeAddr
    /\ ub \in BOOLEAN
    /\ \A a \in ListAddr : ll[a].head \in NodeAddr \cup {NULL}
    /\ it.curr \in NodeAddr \cup {NULL}
    /\ sync.lock \in Threads \cup {0}
====
